---- MODULE Spec2Model ----
(***************************************************************************)
(* A model of rdm/Indexer.cpp: the indexing coordinator (Indexer::index,   *)
(* Indexer::jobDone), the extraction worker (IndexerJob::run and its       *)
(* visitors) and the merge of the four staging maps into the four          *)
(* key-value stores (IndexerImpl::syncData).                               *)
(*                                                                         *)
(* Byte strings (QByteArray, std::string) are sequences of one-character   *)
(* strings; LF is the separator syncData writes and splits on.  The        *)
(* translation-unit cache, the parser and the store are collaborators      *)
(* outside Indexer.cpp; they appear as the values they hand to it.         *)
(***************************************************************************)
EXTENDS Integers, Sequences, FiniteSets, TLC

\* ------------------------------------------------------------ constants

SYNCINTERVAL == 10

\* Bounds of the model.
MaxJobs == 2
MaxCoordJobs == 11

LF == "\n"

\* Database::Type, in the order jobDone syncs them.
Cats == <<"Include", "Definition", "Reference", "Symbol">>

CatSet == {Cats[i] : i \in 1..Len(Cats)}

Modes == {"Normal", "Force"}

\* ------------------------------------------------------------ the inputs

\* "/d/a": a source file in a directory.
PA == <<"/", "d", "/", "a">>

\* "/b": a source file in the root directory.
PB == <<"/", "b">>

\* "/d/c": a second source file, with no cursor of its own.
PC == <<"/", "d", "/", "c">>

\* "": index() does not validate its input.
PE == <<>>

\* "/x\n/d/h": a file whose path holds a line feed.
PL == <<"/", "x", LF, "/", "d", "/", "h">>

\* "/d/h": the header every unit includes.
HH == <<"/", "d", "/", "h">>

Paths == {PA, PB, PC, PE, PL}

\* "c:@f", the USR of function f; "c:" and "" are the absent USRs.
UF == <<"c", ":", "@", "f">>

UsrC == <<"c", ":">>

\* What the parser reports for a cursor: kind, USR, USR of the cursor it
\* references, spelling location, clang_isCursorDefinition, and the display
\* names of the cursor and its semantic parents up to the first empty one.
Cursor(kind, usr, refusr, file, line, col, isDef, names) ==
    [kind |-> kind, usr |-> usr, refusr |-> refusr, file |-> file,
     line |-> line, col |-> col, isDef |-> isDef, names |-> names]

\* The cursors clang_visitChildren visits in the unit of `input`.
CursorsOf(input) ==
    IF input = PA
    THEN << Cursor("decl", UF, <<>>, PA, <<"1">>, <<"5">>, TRUE,
                   << <<"f", "(", ")">> >>),
            Cursor("access", <<>>, <<>>, PA, <<"1">>, <<"1">>, FALSE, <<>>),
            Cursor("expr", <<>>, UF, PA, <<"2">>, <<"1">>, FALSE, <<>>),
            Cursor("expr", UsrC, <<>>, PA, <<"2">>, <<"3">>, FALSE, <<>>) >>
    ELSE IF input = PE
    THEN << Cursor("decl", UF, <<>>, <<>>, <<"1">>, <<"5">>, TRUE,
                   << <<"f", "(", ")">> >>) >>
    ELSE << >>

\* The resolved file names addInclusion is called with, in order: the
\* included header, then the frame of its inclusion stack (the unit's file).
InclusionsOf(input) ==
    IF input = PE THEN <<HH>> ELSE <<HH, input>>

\* The unit the translation-unit cache hands to run(): absent, reused from a
\* stored AST, or parsed from source; Force asks for a parse.
UnitOutcomes(mode) ==
    IF mode = "Force" THEN {"none", "Source"} ELSE {"none", "AST", "Source"}

\* ------------------------------------------------------------ byte strings

RECURSIVE Split(_, _)
\* QByteArray::split: the segments between separators, empty ones included.
Split(s, sep) ==
    IF \A i \in 1..Len(s) : s[i] # sep
    THEN <<s>>
    ELSE LET i == CHOOSE j \in 1..Len(s) :
                      s[j] = sep /\ \A k \in 1..(j - 1) : s[k] # sep
         IN  <<SubSeq(s, 1, i - 1)>> \o Split(SubSeq(s, i + 1, Len(s)), sep)

\* Lines 79-81: the stored value as a set, the empty element removed.
ParseValue(value) ==
    LET parts == Split(value, LF)
    IN  {parts[i] : i \in 1..Len(parts)} \ {<<>>}

RECURSIVE Orders(_)
\* The orders in which a QSet may be iterated.
Orders(S) ==
    IF S = {} THEN {<<>>}
    ELSE UNION {{<<x>> \o o : o \in Orders(S \ {x})} : x \in S}

RECURSIVE Joined(_)
\* Lines 90-97: every element followed by a line feed.
Joined(order) ==
    IF order = <<>> THEN <<>>
    ELSE Head(order) \o <<LF>> \o Joined(Tail(order))

Serialisations(S) == {Joined(o) : o \in Orders(S)}

\* ------------------------------------------------------------ HashSet

EmptyHash == [k \in {} |-> {}]

\* QHash::operator[] followed by QSet::unite.
HashUnite(h, k, vs) ==
    [x \in DOMAIN h \cup {k} |->
        IF x = k THEN (IF k \in DOMAIN h THEN h[k] ELSE {}) \cup vs ELSE h[x]]

HashInsert(h, k, v) == HashUnite(h, k, {v})

HashGet(h, k) == IF k \in DOMAIN h THEN h[k] ELSE {}

\* uniteSets (lines 304-313): dst after the loop; src is cleared by the caller.
uniteSets(dst, src) ==
    [x \in DOMAIN dst \cup DOMAIN src |-> HashGet(dst, x) \cup HashGet(src, x)]

\* ------------------------------------------------------------ extraction

\* Line 230: the USR is empty or the sentinel "c:".
AbsentUsr(usr) == usr = <<>> \/ usr = UsrC

RECURSIVE IndexOfParen(_, _)
\* QByteArray::indexOf('('), 0-based, -1 when absent.
IndexOfParen(s, i) ==
    IF i > Len(s) THEN -1
    ELSE IF s[i] = "(" THEN i - 1
    ELSE IndexOfParen(s, i + 1)

RECURSIVE addNamePermutations(_, _, _, _, _, _)
\* Lines 172-211, from the i-th display name on.
addNamePermutations(names, i, usr, qparam, qnoparam, m_syms) ==
    IF i > Len(names) THEN m_syms
    ELSE IF names[i] = <<>> THEN m_syms
    ELSE LET qname == names[i]
             sp == IndexOfParen(qname, 1)
             np == IF qparam = <<>> THEN qname
                   ELSE qname \o <<":", ":">> \o qparam
             nn == IF qparam = <<>>
                   THEN (IF sp # -1 THEN SubSeq(qname, 1, sp) ELSE qname)
                   ELSE qname \o <<":", ":">> \o qnoparam
             s1 == HashInsert(m_syms, np, usr)
             s2 == IF np # nn THEN HashInsert(s1, nn, usr) ELSE s1
         IN  addNamePermutations(names, i + 1, usr, np, nn, s2)

\* indexVisitor (lines 213-271) on one cursor; m holds m_defs, m_refs, m_syms.
indexVisitor(c, m) ==
    IF c.kind = "access" THEN m
    ELSE LET cusr == IF AbsentUsr(c.usr) THEN c.refusr ELSE c.usr
         IN  IF AbsentUsr(cusr) THEN m
             ELSE IF c.file = <<>> THEN m
             ELSE LET qloc == c.file \o <<":">> \o c.line \o <<":">> \o c.col
                      d == IF c.isDef
                           THEN HashInsert(m.m_defs, cusr, qloc)
                           ELSE m.m_defs
                      s == IF c.isDef
                           THEN addNamePermutations(c.names, 1, cusr, <<>>, <<>>, m.m_syms)
                           ELSE m.m_syms
                  IN  [m_defs |-> d,
                       m_refs |-> HashInsert(m.m_refs, cusr, qloc),
                       m_syms |-> s]

RECURSIVE visitChildren(_, _, _)
\* clang_visitChildren (line 343): indexVisitor on every cursor, in order.
visitChildren(cursors, i, m) ==
    IF i > Len(cursors) THEN m
    ELSE visitChildren(cursors, i + 1, indexVisitor(cursors[i], m))

NoMaps == [m_defs |-> EmptyHash, m_refs |-> EmptyHash, m_syms |-> EmptyHash]

RECURSIVE LastIndexOfFrom(_, _, _)
\* The backward scan of QByteArray::lastIndexOf from 0-based position n.
LastIndexOfFrom(s, ch, n) ==
    IF n < 0 THEN -1
    ELSE IF n < Len(s) /\ s[n + 1] = ch THEN n
    ELSE LastIndexOfFrom(s, ch, n - 1)

\* QByteArray::lastIndexOf(ch, from): a negative from counts from the end.
LastIndexOf(s, ch, from) ==
    LET f == IF from < 0 THEN from + Len(s)
             ELSE IF from > Len(s) THEN Len(s) - 1
             ELSE from
    IN  LastIndexOfFrom(s, ch, f)

RECURSIVE SkipBackslashes(_, _, _)
\* Lines 286-289: <<idx, backslashes>> after the while loop.
SkipBackslashes(s, idx, backslashes) ==
    IF idx > 0 /\ s[idx] = "\\"
    THEN SkipBackslashes(s, idx - 1, backslashes + 1)
    ELSE <<idx, backslashes>>

\* Lines 284-289: a pass of the for (;;) of addFilenameSymbol, entered with
\* idx, up to the end of its while loop: <<idx, backslashes>>.
FilenameScan(filename, idx) ==
    SkipBackslashes(filename, LastIndexOf(filename, "/", idx), 0)

\* Lines 290-297: the rest of the pass: the idx it leaves and whether it
\* left by break.
FilenameTest(idx, backslashes) ==
    IF (backslashes % 2 # 0) \/ idx = 0
    THEN [idx |-> idx - 1, break |-> (idx - 1 = 0)]
    ELSE [idx |-> idx + backslashes, break |-> TRUE]

\* Lines 299-301: m_syms once the loop has left with idx.
FilenameSymbol(filename, idx, m_syms) ==
    IF idx = -1 THEN m_syms
    ELSE HashInsert(m_syms, SubSeq(filename, idx + 2, Len(filename)), filename)

\* ------------------------------------------------------------ state

VARIABLES
    env,        \* the run's surroundings: inputs callers submit, whether the
                \* store can fail, how many jobs the run admits
    indexing,   \* IndexerImpl::indexing
    jobs,       \* IndexerImpl::jobs: id -> the job's m_id, m_in, m_mode
    lastJobId,  \* IndexerImpl::lastJobId
    jobCounter, \* IndexerImpl::jobCounter
    mutex,      \* owner of implMutex and of the four category mutexes
    data,       \* the staging maps incs, defs, refs, syms, by category
    db,         \* the four stores: key -> stored value
    worker,     \* the jobs the pool holds: position in run(), the unit the
                \* cache handed it, m_defs, m_refs, m_syms
    queue,      \* done(id, filename) signals queued to the Indexer's thread
    handler,    \* position of jobDone on the Indexer's thread, with the
                \* batch of the syncData call in hand and what that call
                \* has seen: the map its loop read, the reads that failed
    call,       \* the index() call that holds implMutex, if any
    ret,        \* the input and value of an index() call as it returns
    done,       \* id -> number of done signals the job has emitted
    s_inst      \* Indexer::s_inst: the Indexer, or "0" once it is destroyed

coordVars == <<indexing, jobs, lastJobId, jobCounter>>

vars == <<env, indexing, jobs, lastJobId, jobCounter, mutex, data, db,
          worker, queue, handler, call, ret, done, s_inst>>

Locks == {"impl"} \cup CatSet

Free == <<"free">>

ByIndex == <<"index">>

ByJobDone == <<"jobDone">>

ByJob(id) == <<"job", id>>

incs == data["Include"]

defs == data["Definition"]

refs == data["Reference"]

syms == data["Symbol"]

\* The Indexer that the constructor stores in s_inst (line 378).
This == "this"

\* jobDone is not running.  `calls` and `opened` list the syncData calls of
\* the jobDone in hand and those whose store opened; `missed` holds the
\* categories where a failed open has left entries staged for a later sync.
Idle == [pc |-> "idle", cat |-> 0, id |-> 0, batch |-> <<>>, calls |-> <<>>,
         opened |-> {}, staged |-> EmptyHash, failed |-> {}, missed |-> {}]

\* The set at a key of a store: what a reader parses from the value, an
\* absent key reading as the empty value.
SetAt(store, k) == IF k \in DOMAIN store THEN ParseValue(store[k]) ELSE {}

\* The persistent set at a key of a category's store.
Stored(c, k) == SetAt(db[c], k)

InitState ==
    /\ indexing = {}
    /\ jobs = <<>>
    /\ lastJobId = 0
    /\ jobCounter = 0
    /\ mutex = [l \in Locks |-> Free]
    /\ data = [c \in CatSet |-> EmptyHash]
    /\ db = [c \in CatSet |-> <<>>]
    /\ worker = <<>>
    /\ queue = <<>>
    /\ handler = Idle
    /\ call = <<>>
    /\ ret = <<>>
    /\ done = <<>>
    /\ s_inst = This

\* Indexer::Indexer (lines 365-379) with an absolute root path; callers
\* submit two source files, the store can fail.  Force only narrows what
\* the cache may hand back, so Normal covers it.
Init ==
    /\ env = [inputs |-> {PA, PC}, modes |-> {"Normal"}, faults |-> TRUE,
              maxJobs |-> MaxJobs]
    /\ InitState

\* One input, any of Paths, submitted again and again over a store that
\* never fails.
InitOne ==
    /\ env \in {[inputs |-> {p}, modes |-> {"Normal"}, faults |-> FALSE,
                  maxJobs |-> MaxJobs] : p \in Paths}
    /\ InitState

\* Many jobs over two inputs, every unit served by the cache.
InitCoord ==
    /\ env = [inputs |-> {PA, PB}, modes |-> Modes, faults |-> FALSE,
              maxJobs |-> MaxCoordJobs]
    /\ InitState

\* ------------------------------------------------------------ Indexer::index

RECURSIVE Probe(_, _)
\* Lines 401-403: the first id from n on that `jobs` does not hold.
Probe(n, js) == IF n \in DOMAIN js THEN Probe(n + 1, js) ELSE n

\* index() without the test of line 397.
RejectsNothing(input) == FALSE

\* Line 397: the call is turned away.
Rejects(input) == input \in indexing

\* index() without line 405.
insertNothing(set, x) == set

\* Line 405: QSet::insert.
insert(set, x) == set \cup {x}

\* Only the step on which index() returns shows a return value.
NoReturn == ret' = <<>>

\* Line 395: a caller takes implMutex.  Callers reach the Indexer through
\* instance() (lines 388-391), which hands out none once it is destroyed.
IndexBegin(input, mode) ==
    /\ s_inst = This
    /\ call = <<>>
    /\ mutex["impl"] = Free
    /\ input \in indexing \/ lastJobId < env.maxJobs
    /\ mutex' = [mutex EXCEPT !["impl"] = ByIndex]
    /\ call' = <<[input |-> input, mode |-> mode]>>
    /\ NoReturn
    /\ UNCHANGED <<env, s_inst, coordVars, data, db, worker, queue, handler, done>>

\* Lines 397-414, to the return that releases implMutex.
IndexEnd ==
    /\ call # <<>>
    /\ LET input == call[1].input
           id == Probe(lastJobId, jobs)
       IN  IF Rejects(input)
           THEN /\ ret' = <<[input |-> input, value |-> -1]>>
                /\ UNCHANGED <<coordVars, worker, done>>
           ELSE /\ lastJobId' = id + 1
                /\ indexing' = insert(indexing, input)
                /\ jobs' = (id :> [m_id |-> id, m_in |-> input,
                                   m_mode |-> call[1].mode]) @@ jobs
                /\ worker' = (id :> [pc |-> "queued", unit |-> "", n |-> 0,
                                     idx |-> 0, backslashes |-> 0,
                                     maps |-> NoMaps]) @@ worker
                /\ done' = (id :> 0) @@ done
                /\ ret' = <<[input |-> input, value |-> id]>>
                /\ UNCHANGED jobCounter
    /\ mutex' = [mutex EXCEPT !["impl"] = Free]
    /\ call' = <<>>
    /\ UNCHANGED <<env, s_inst, data, db, queue, handler>>

\* ------------------------------------------------------------ IndexerJob::run

At(id, pc) == id \in DOMAIN worker /\ worker[id].pc = pc

Goto(id, pc) == [worker EXCEPT ![id].pc = pc]

\* run() visiting whatever unit the cache hands it.
RevisitsAny(unit) == unit # "none"

\* Lines 322 and 340: there is a unit and its origin is Source.
Revisits(unit) == unit = "Source"

\* Lines 317-340 and 356-358: a pool thread starts the job; the cache hands
\* it one of `units`: no unit, a unit reused from its AST, or one parsed
\* from source.
Start(id, units) ==
    /\ At(id, "queued")
    /\ \E unit \in units :
          worker' = [worker EXCEPT
                        ![id].unit = unit,
                        ![id].pc = IF Revisits(unit) THEN "incLock" ELSE "emit",
                        ![id].n = IF Revisits(unit) THEN 1 ELSE 0]
    /\ NoReturn
    /\ UNCHANGED <<env, s_inst, coordVars, mutex, data, db, queue, handler, call, done>>

RunBegin(id) == Start(id, UnitOutcomes(jobs[id].m_mode))

\* The same where every unit the cache holds is current: none is parsed
\* from source.
RunBeginCached(id) == Start(id, UnitOutcomes(jobs[id].m_mode) \ {"Source"})

\* A locker that does not wait for the mutex.
lockableAlways(m, c) == TRUE

\* QMutexLocker (lines 66, 142, 346, 349, 352): the thread goes on once the
\* mutex is free.
lockable(m, c) == m[c] = Free

\* Line 142: addInclusion takes incMutex.
AddInclusionLock(id) ==
    /\ At(id, "incLock")
    /\ lockable(mutex, "Include")
    /\ mutex' = [mutex EXCEPT !["Include"] = ByJob(id)]
    /\ worker' = Goto(id, "inc")
    /\ NoReturn
    /\ UNCHANGED <<env, s_inst, coordVars, data, db, queue, handler, call, done>>

\* Line 143: the included file is the job's own input.
SelfInclusion(m_in, path) == m_in = path

\* A function that locks its mutex and returns without unlocking it.
releaseNever(m, c) == m

\* ~QMutexLocker as the function returns (lines 145, 150, 106).
release(m, c) == [m EXCEPT ![c] = Free]

\* Lines 143-150: the n-th addInclusion call of the inclusion walk.
AddInclusion(id) ==
    /\ At(id, "inc")
    /\ LET m_in == jobs[id].m_in
           calls == InclusionsOf(m_in)
           path == calls[worker[id].n]
           last == worker[id].n = Len(calls)
       IN  /\ data' = IF SelfInclusion(m_in, path) THEN data
                      ELSE [data EXCEPT !["Include"] = HashInsert(@, path, m_in)]
           /\ worker' = [worker EXCEPT ![id].pc = IF last THEN "visit" ELSE "incLock",
                                       ![id].n = IF last THEN 0 ELSE @ + 1]
    /\ mutex' = release(mutex, "Include")
    /\ NoReturn
    /\ UNCHANGED <<env, s_inst, coordVars, db, queue, handler, call, done>>

\* Line 343: the AST walk fills the job's own m_defs, m_refs, m_syms.
VisitChildren(id) ==
    /\ At(id, "visit")
    /\ worker' = [worker EXCEPT
                    ![id].pc = "fname",
                    ![id].idx = -1,
                    ![id].maps = visitChildren(CursorsOf(jobs[id].m_in), 1, NoMaps)]
    /\ NoReturn
    /\ UNCHANGED <<env, s_inst, coordVars, mutex, data, db, queue, handler, call, done>>

\* unit.unit()->filename (line 344) of a unit parsed from source: the file
\* that was parsed.
UnitFilename(input) == input

\* Line 344, addFilenameSymbol on the unit's filename: a pass of its loop
\* looks for the last '/' from idx and steps back over backslashes.
AddFilenameScan(id) ==
    /\ At(id, "fname")
    /\ LET sb == FilenameScan(UnitFilename(jobs[id].m_in), worker[id].idx)
       IN  worker' = [worker EXCEPT ![id].pc = "fnameTest",
                                    ![id].idx = sb[1],
                                    ![id].backslashes = sb[2]]
    /\ NoReturn
    /\ UNCHANGED <<env, s_inst, coordVars, mutex, data, db, queue, handler, call, done>>

\* The pass ends: it breaks, and the symbol is recorded, or the loop goes
\* round again.
AddFilenameSymbol(id) ==
    /\ At(id, "fnameTest")
    /\ LET filename == UnitFilename(jobs[id].m_in)
           r == FilenameTest(worker[id].idx, worker[id].backslashes)
       IN  worker' = IF r.break
                     THEN [worker EXCEPT
                             ![id].pc = "defLock",
                             ![id].idx = 0,
                             ![id].backslashes = 0,
                             ![id].maps.m_syms = FilenameSymbol(filename, r.idx, @)]
                     ELSE [worker EXCEPT ![id].pc = "fname",
                                         ![id].idx = r.idx,
                                         ![id].backslashes = 0]
    /\ NoReturn
    /\ UNCHANGED <<env, s_inst, coordVars, mutex, data, db, queue, handler, call, done>>

FoldCat(pc) ==
    IF pc \in {"defLock", "defFold"} THEN "Definition"
    ELSE IF pc \in {"refLock", "refFold"} THEN "Reference"
    ELSE "Symbol"

FoldField(pc) ==
    IF pc = "defFold" THEN "m_defs"
    ELSE IF pc = "refFold" THEN "m_refs"
    ELSE "m_syms"

\* Lines 346, 349, 352: the job takes the category's mutex.
FoldLock(id) ==
    /\ id \in DOMAIN worker
    /\ worker[id].pc \in {"defLock", "refLock", "symLock"}
    /\ lockable(mutex, FoldCat(worker[id].pc))
    /\ mutex' = [mutex EXCEPT ![FoldCat(worker[id].pc)] = ByJob(id)]
    /\ worker' = Goto(id, CASE worker[id].pc = "defLock" -> "defFold"
                            [] worker[id].pc = "refLock" -> "refFold"
                            [] OTHER -> "symFold")
    /\ NoReturn
    /\ UNCHANGED <<env, s_inst, coordVars, data, db, queue, handler, call, done>>

\* run() leaving each locker to unlock when it returns.
unlockAtReturn(m, c) == m

\* Lines 348, 351, 354: QMutexLocker::unlock().
unlock(m, c) == [m EXCEPT ![c] = Free]

\* Lines 347-348, 350-351, 353-354: uniteSets into the shared map, then
\* the unlock.
Fold(id) ==
    /\ id \in DOMAIN worker
    /\ worker[id].pc \in {"defFold", "refFold", "symFold"}
    /\ LET pc == worker[id].pc
           c == FoldCat(pc)
           f == FoldField(pc)
       IN  /\ data' = [data EXCEPT ![c] = uniteSets(@, worker[id].maps[f])]
           /\ worker' = [worker EXCEPT
                           ![id].pc = CASE pc = "defFold" -> "refLock"
                                        [] pc = "refFold" -> "symLock"
                                        [] OTHER -> "emit",
                           ![id].maps = [@ EXCEPT ![f] = EmptyHash]]
           /\ mutex' = unlock(mutex, c)
    /\ NoReturn
    /\ UNCHANGED <<env, s_inst, coordVars, db, queue, handler, call, done>>

\* Line 360: emit done(m_id, m_in), queued to the Indexer's thread; run()
\* returns and the pool deletes the job.
EmitDone(id) ==
    /\ At(id, "emit")
    /\ queue' = Append(queue, [id |-> jobs[id].m_id, filename |-> jobs[id].m_in])
    /\ done' = [done EXCEPT ![id] = @ + 1]
    /\ worker' = [i \in DOMAIN worker \ {id} |-> worker[i]]
    /\ NoReturn
    /\ UNCHANGED <<env, s_inst, coordVars, mutex, data, db, handler, call>>

\* ------------------------------------------------------------ syncData

OpenOutcomes == IF env.faults THEN {TRUE, FALSE} ELSE {TRUE}

WriteOutcomes == IF env.faults THEN {TRUE, FALSE} ELSE {TRUE}

\* The keys whose db->Get may fail: those the store holds (a failed read of
\* an absent key reads the same empty value).
ReadFailures(c) ==
    IF env.faults THEN SUBSET (DOMAIN data[c] \cap DOMAIN db[c]) ELSE {{}}

\* Lines 76-81: the set read back for key k; the status of Get is not
\* looked at, so a failed read leaves `value` empty.
ReadSet(c, k, failed) == IF k \in failed THEN {} ELSE Stored(c, k)

\* Lines 83-87: the stored set holds every staged element.
SkipPut(newset, set) == Cardinality(newset \cap set) = Cardinality(set)

\* Line 88.
Merged(newset, set) == newset \cup set

PutKeys(c, failed) ==
    {k \in DOMAIN data[c] : ~SkipPut(ReadSet(c, k, failed), data[c][k])}

\* Lines 88-97: the values the loop may build for key k, the merged set in
\* some iteration order.
PutValues(c, k, failed) ==
    Serialisations(Merged(ReadSet(c, k, failed), data[c][k]))

\* Lines 88-99: the batches the loop may build, one Put per key of `keys`.
BatchesOver(keys, c, failed) ==
    {b \in [keys -> UNION {PutValues(c, k, failed) : k \in keys}] :
        \A k \in keys : b[k] \in PutValues(c, k, failed)}

\* leveldb::DB::Write: the batch applied as a whole.
Written(store, batch) ==
    [k \in DOMAIN store \cup DOMAIN batch |->
        IF k \in DOMAIN batch THEN batch[k] ELSE store[k]]

\* ------------------------------------------------------------ Indexer::jobDone

HCat == Cats[handler.cat]

\* jobDone without line 443.
removeNothing(set, x) == set

\* Line 443: QSet::remove.
remove(set, x) == set \ {x}

\* jobDone syncing only when no job is left.
SyncDueWhenEmpty(js, counter) == js = <<>>

\* Line 447.
SyncDue(js, counter) == js = <<>> \/ counter = SYNCINTERVAL

\* Lines 440-447: the Indexer's thread takes the next done signal and
\* implMutex, retires the job and decides whether to sync.
JobDoneBegin ==
    /\ handler.pc = "idle"
    /\ queue # <<>>
    /\ mutex["impl"] = Free
    /\ LET ev == Head(queue)
           js == [i \in DOMAIN jobs \ {ev.id} |-> jobs[i]]
       IN  /\ jobs' = js
           /\ indexing' = remove(indexing, ev.filename)
           /\ jobCounter' = jobCounter + 1
           /\ handler' = [pc |-> IF SyncDue(js, jobCounter + 1) THEN "open" ELSE "emit",
                          cat |-> IF SyncDue(js, jobCounter + 1) THEN 1 ELSE 0,
                          id |-> ev.id, batch |-> <<>>,
                          calls |-> <<>>, opened |-> {},
                          staged |-> EmptyHash, failed |-> {},
                          missed |-> handler.missed]
    /\ queue' = Tail(queue)
    /\ mutex' = [mutex EXCEPT !["impl"] = ByJobDone]
    /\ NoReturn
    /\ UNCHANGED <<env, s_inst, lastJobId, data, db, worker, call, done>>

\* After syncData returns: the next of lines 449-452, or line 453.
AfterSync(h) ==
    IF h.cat < Len(Cats)
    THEN [h EXCEPT !.pc = "open", !.cat = h.cat + 1, !.batch = <<>>,
                   !.staged = EmptyHash, !.failed = {}]
    ELSE [h EXCEPT !.pc = "synced", !.cat = 0, !.batch = <<>>,
                   !.staged = EmptyHash, !.failed = {}]

\* Lines 54-66: the store is opened and the category's mutex taken;
\* syncData returns at once when the open fails.
SyncOpen ==
    /\ handler.pc = "open"
    /\ \E ok \in OpenOutcomes :
          IF ok
          THEN /\ lockable(mutex, HCat)
               /\ mutex' = [mutex EXCEPT ![HCat] = ByJobDone]
               /\ handler' = [handler EXCEPT !.pc = "merge",
                                             !.calls = Append(@, HCat),
                                             !.opened = @ \cup {HCat}]
          ELSE /\ handler' = [AfterSync(handler) EXCEPT
                                 !.calls = Append(@, HCat),
                                 !.missed = IF data[HCat] = EmptyHash THEN @
                                            ELSE @ \cup {HCat}]
               /\ UNCHANGED mutex
    /\ NoReturn
    /\ UNCHANGED <<env, s_inst, coordVars, data, db, worker, queue, call, done>>

\* Lines 68-101: the read-merge loop over the staging map.
SyncMerge ==
    /\ handler.pc = "merge"
    /\ \E failed \in ReadFailures(HCat) :
          \E batch \in BatchesOver(PutKeys(HCat, failed), HCat, failed) :
             handler' = [handler EXCEPT
                           !.pc = "clear",
                           !.batch = batch,
                           !.staged = data[HCat],
                           !.failed = failed]
    /\ NoReturn
    /\ UNCHANGED <<env, s_inst, coordVars, mutex, data, db, worker, queue, call,
                   done>>

\* syncData without line 102.
clearNothing(h) == h

\* Line 102: data.clear().
clear(h) == EmptyHash

\* Line 102: the staging map is cleared.
SyncClear ==
    /\ handler.pc = "clear"
    /\ data' = [data EXCEPT ![HCat] = clear(@)]
    /\ handler' = [handler EXCEPT !.pc = "write"]
    /\ NoReturn
    /\ UNCHANGED <<env, s_inst, coordVars, mutex, db, worker, queue, call, done>>

\* Lines 104-106: the batch is committed, or the commit fails; the store is
\* closed and the locker releases the category's mutex.
SyncWrite ==
    /\ handler.pc = "write"
    /\ \E ok \in WriteOutcomes :
          db' = IF ok THEN [db EXCEPT ![HCat] = Written(@, handler.batch)] ELSE db
    /\ mutex' = release(mutex, HCat)
    /\ handler' = [AfterSync(handler) EXCEPT !.missed = @ \ {HCat}]
    /\ NoReturn
    /\ UNCHANGED <<env, s_inst, coordVars, data, worker, queue, call, done>>

\* Lines 453-458: after a sync jobCounter is reset; indexingDone(id) is
\* emitted and implMutex released.
JobDoneEnd ==
    /\ handler.pc \in {"synced", "emit"}
    /\ jobCounter' = IF handler.pc = "synced" THEN 0 ELSE jobCounter
    /\ mutex' = [mutex EXCEPT !["impl"] = Free]
    /\ handler' = [Idle EXCEPT !.missed = handler.missed]
    /\ NoReturn
    /\ UNCHANGED <<env, s_inst, indexing, jobs, lastJobId, data, db, worker, queue,
                   call, done>>

\* ------------------------------------------------------------ Indexer::~Indexer

\* Lines 381-386, run by the Indexer's thread once the pool has drained and
\* no call is inside index(): s_inst is reset and m_impl deleted, and with
\* it the staging maps and the coordinator's sets; no syncData is called.
\* Done signals still queued for the Indexer are dropped with it.
Destructor ==
    /\ s_inst = This
    /\ handler.pc = "idle"
    /\ call = <<>>
    /\ worker = <<>>
    /\ s_inst' = "0"
    /\ data' = [c \in CatSet |-> EmptyHash]
    /\ indexing' = {}
    /\ jobs' = <<>>
    /\ queue' = <<>>
    /\ NoReturn
    /\ UNCHANGED <<env, lastJobId, jobCounter, mutex, db, worker, handler,
                   call, done>>

\* ------------------------------------------------------------ specifications

Index == \E input \in env.inputs, mode \in env.modes : IndexBegin(input, mode)

Next ==
    \/ Index
    \/ IndexEnd
    \/ \E id \in DOMAIN worker : RunBegin(id)
    \/ \E id \in DOMAIN worker : AddInclusionLock(id)
    \/ \E id \in DOMAIN worker : AddInclusion(id)
    \/ \E id \in DOMAIN worker : VisitChildren(id)
    \/ \E id \in DOMAIN worker : AddFilenameScan(id)
    \/ \E id \in DOMAIN worker : AddFilenameSymbol(id)
    \/ \E id \in DOMAIN worker : FoldLock(id)
    \/ \E id \in DOMAIN worker : Fold(id)
    \/ \E id \in DOMAIN worker : EmitDone(id)
    \/ JobDoneBegin
    \/ SyncOpen
    \/ SyncMerge
    \/ SyncClear
    \/ SyncWrite
    \/ JobDoneEnd

Spec == Init /\ [][Next]_vars

\* The run that indexes one input repeatedly.
SpecReindex == InitOne /\ [][Next]_vars

WorkerNext ==
    \E id \in DOMAIN worker :
        \/ RunBegin(id)
        \/ AddInclusionLock(id)
        \/ AddInclusion(id)
        \/ VisitChildren(id)
        \/ AddFilenameScan(id)
        \/ AddFilenameSymbol(id)
        \/ FoldLock(id)
        \/ Fold(id)
        \/ EmitDone(id)

HandlerNext ==
    JobDoneBegin \/ SyncOpen \/ SyncMerge \/ SyncClear \/ SyncWrite \/ JobDoneEnd

\* The same run where the pool's threads and the Indexer's event loop keep
\* running and a caller inside index() leaves it.
FairSpec ==
    /\ SpecReindex
    /\ WF_vars(WorkerNext)
    /\ WF_vars(HandlerNext)
    /\ WF_vars(IndexEnd)

\* The coordinator where no unit is parsed from source.
NextCoord ==
    \/ Index
    \/ IndexEnd
    \/ \E id \in DOMAIN worker : RunBeginCached(id)
    \/ \E id \in DOMAIN worker : EmitDone(id)
    \/ JobDoneBegin
    \/ SyncOpen
    \/ SyncMerge
    \/ SyncClear
    \/ SyncWrite
    \/ JobDoneEnd

SpecCoord == InitCoord /\ [][NextCoord]_vars

\* A run caught while it is busy: the job of "/d/a" (id 0) is still queued
\* in the pool, and since the last sync SYNCINTERVAL - 1 jobs of "/d/c",
\* served by the cache, have come and gone, each jobDone finding job 0
\* outstanding.  The next jobDone syncs while job 0 may be anywhere in run().
\* The store does not fail.
InitBusy ==
    /\ env = [inputs |-> {PA, PC}, modes |-> {"Normal"}, faults |-> FALSE,
              maxJobs |-> SYNCINTERVAL + MaxJobs - 1]
    /\ indexing = {PA}
    /\ jobs = (0 :> [m_id |-> 0, m_in |-> PA, m_mode |-> "Normal"])
    /\ lastJobId = SYNCINTERVAL
    /\ jobCounter = SYNCINTERVAL - 1
    /\ mutex = [l \in Locks |-> Free]
    /\ data = [c \in CatSet |-> EmptyHash]
    /\ db = [c \in CatSet |-> <<>>]
    /\ worker = (0 :> [pc |-> "queued", unit |-> "", n |-> 0, idx |-> 0,
                       backslashes |-> 0, maps |-> NoMaps])
    /\ queue = <<>>
    /\ handler = Idle
    /\ call = <<>>
    /\ ret = <<>>
    /\ done = [id \in 0 .. (SYNCINTERVAL - 1) |-> IF id = 0 THEN 0 ELSE 1]
    /\ s_inst = This

SpecBusy == InitBusy /\ [][Next]_vars

\* One source file over a store that never fails.
InitShutdown ==
    /\ env = [inputs |-> {PA}, modes |-> {"Normal"}, faults |-> FALSE,
              maxJobs |-> MaxJobs]
    /\ InitState

\* A run that the owner may end by destroying the Indexer.
NextShutdown ==
    \/ Next
    \/ Destructor

SpecShutdown == InitShutdown /\ [][NextShutdown]_vars

\* ---------------------------------------------------------------- properties

JobsOn(input) == {id \in DOMAIN jobs : jobs[id].m_in = input}

\* C1: at most one active job exists per input path; a call of index() on
\* a path that is in `indexing` returns -1 and leaves the one job for that
\* path as it was, and a call that returns an id has admitted exactly that
\* job.
C1_SingleActiveJob ==
    /\ \A input \in Paths : Cardinality(JobsOn(input)) <= 1
    /\ ret # <<>> =>
          LET r == ret[1]
          IN  /\ r.input \in indexing
              /\ r.value = -1 => Cardinality(JobsOn(r.input)) = 1
              /\ r.value # -1 => /\ JobsOn(r.input) = {r.value}
                                 /\ r.value = lastJobId - 1
                                 /\ worker[r.value].pc = "queued"

\* A second call of index() on a path whose job is still active has
\* returned -1.
C1_Witness ==
    /\ ret # <<>>
    /\ ret[1].value = -1
    /\ Cardinality(JobsOn(ret[1].input)) = 1

\* C2: monotonic union of the store.  In every step, for every category
\* and key, the set stored after the step holds every element that was stored
\* before it: stored sets only grow, no sync removes an element.
C2_StoredSetsOnlyGrow ==
    [][\A c \in CatSet : \A k \in DOMAIN db[c] :
          SetAt(db[c], k) \subseteq SetAt(db'[c], k)]_vars

\* jobDone has retired the last outstanding job and its calls of syncData
\* have returned.
QuiescentSynced == jobs = <<>> /\ handler.pc = "synced"

\* C3 as stated: whenever jobDone has finished for the last outstanding job
\* (`jobs` is empty), all four staging maps are empty.
C3_QuiescentAllEmpty ==
    QuiescentSynced => \A c \in CatSet : data[c] = EmptyHash

\* C3, amended: a jobDone that leaves `jobs` empty always takes the sync
\* branch and calls syncData once for each of the four categories, in order;
\* when the calls have returned, every staging map whose store was opened is
\* empty (a map whose store failed to open is left as it was).
C3_QuiescentOpenedEmpty ==
    /\ handler.pc = "emit" => jobs # <<>>
    /\ QuiescentSynced =>
          /\ handler.calls = Cats
          /\ \A c \in handler.opened : data[c] = EmptyHash

\* A quiescent sync where one store opened and took its staged data, while
\* another failed to open and kept it.
C3_Witness ==
    /\ QuiescentSynced
    /\ \E c \in handler.opened : db[c] # <<>>
    /\ \E c \in CatSet \ handler.opened : data[c] # EmptyHash

\* C4: in every reachable state, for every USR u, every location stored in
\* the Definition store at u is also stored in the Reference store at u.
C4_DefinitionInReference ==
    \A u \in DOMAIN db["Definition"] :
        Stored("Definition", u) \subseteq Stored("Reference", u)

\* C5: no self-include.  For every key k of the include staging map and of
\* the Include store, k is not an element of the set at k.
C5_NoSelfInclude ==
    /\ \A k \in DOMAIN incs : k \notin incs[k]
    /\ \A k \in DOMAIN db["Include"] : k \notin Stored("Include", k)

\* C6: sync trigger.  A jobDone(id, input) removes id from `jobs` and input
\* from `indexing` and increments jobCounter; it goes on to the sync if and
\* only if `jobs` is now empty or jobCounter equals SYNCINTERVAL.  A
\* jobDone that synced has called syncData once per category, in order, and
\* returns with jobCounter reset to 0; one that did not has called it for
\* none and returns with the incremented jobCounter.
C6_SyncTrigger ==
    [][/\ (handler.pc = "idle" /\ handler'.pc # "idle") =>
            LET ev == Head(queue)
                due == jobs' = <<>> \/ jobCounter' = SYNCINTERVAL
            IN  /\ DOMAIN jobs' = DOMAIN jobs \ {ev.id}
                /\ indexing' = indexing \ {ev.filename}
                /\ jobCounter' = jobCounter + 1
                /\ handler'.pc = IF due THEN "open" ELSE "emit"
                /\ handler'.calls = <<>>
       /\ (handler.pc # "idle" /\ handler'.pc = "idle") =>
            /\ handler.pc \in {"synced", "emit"}
            /\ handler.pc = "synced" =>
                  handler.calls = Cats /\ jobCounter' = 0
            /\ handler.pc = "emit" =>
                  handler.calls = <<>> /\ jobCounter' = jobCounter
       /\ (handler.pc # "idle" /\ handler'.pc # "idle") =>
            /\ jobCounter' = jobCounter
            /\ handler.pc = "emit" => handler'.pc = "emit"
      ]_vars

\* The tenth completion since the last sync starts a sync while a job is
\* still outstanding.
C6_Witness ==
    /\ handler.pc = "open"
    /\ handler.calls = <<>>
    /\ jobs # <<>>
    /\ jobCounter = SYNCINTERVAL

JobIds == 0 .. (MaxJobs - 1)

\* C7: every admitted job emits done(id, input) exactly once, carrying the
\* id and input it was admitted with: no job emits twice, every signal in
\* flight names its job and that job's input, and every admitted job
\* eventually has emitted.
C7_DoneExactlyOnce ==
    /\ [](\A id \in DOMAIN done : done[id] <= 1)
    /\ [](\A i \in DOMAIN queue :
            /\ queue[i].id \in DOMAIN jobs
            /\ queue[i].filename = jobs[queue[i].id].m_in)
    /\ \A id \in JobIds :
          (id \in DOMAIN done) ~> (id \in DOMAIN done /\ done[id] = 1)

\* C8: idempotence of re-index.  Where one input is indexed again and again
\* over a store that never fails, a key the store already holds was written
\* by an earlier sync cycle of the same staged set, so a later cycle issues no
\* Put for it: the batch a sync has built holds only keys the store lacks.
C8_ReindexPutsNothing ==
    handler.pc = "write" =>
        \A k \in DOMAIN handler.batch : k \notin DOMAIN db[HCat]

\* C9: the same path may be submitted again once its previous job has
\* completed.  Whenever index(p) runs while no job for p is left in `jobs`
\* (jobDone has retired every earlier job for p), the call admits a new job
\* for p and returns its id, which is >= 0.
C9_ResubmitAdmitted ==
    [][(call # <<>> /\ call' = <<>> /\ JobsOn(call[1].input) = {}) =>
            /\ ret' # <<>>
            /\ ret'[1].input = call[1].input
            /\ ret'[1].value >= 0
            /\ ret'[1].value \notin DOMAIN jobs
            /\ ret'[1].value \in DOMAIN jobs'
            /\ jobs'[ret'[1].value].m_in = call[1].input
      ]_vars

\* index("/d/a") has returned an id although an earlier job for "/d/a" ran:
\* the filename symbol that job staged is in the Symbol store.
C9_Witness ==
    /\ ret # <<>>
    /\ ret[1].input = PA
    /\ ret[1].value >= 1
    /\ <<"a">> \in DOMAIN db["Symbol"]
    /\ PA \in Stored("Symbol", <<"a">>)

\* The elements held for key k of category c: those of the store, those of
\* the staging map, and, while a sync of c has cleared the staging map and
\* not yet committed, those of the batch it is about to commit.
HeldAt(store, staged, h, c, k) ==
    SetAt(store[c], k) \cup HashGet(staged[c], k)
        \cup (IF h.pc = "write" /\ Cats[h.cat] = c /\ k \in DOMAIN h.batch
              THEN ParseValue(h.batch[k]) ELSE {})

\* C10: for every category and key, the union of the store's contents and
\* the staging map's contents never loses an element, whatever the step:
\* worker fold, sync read-merge, staging clear, batch commit, failed commit.
\* (Read in the code's favour: a batch in hand counts with the store, so that
\* the clear of line 102 is not by itself a loss.)
C10_UnionNeverShrinks ==
    [][\A c \in CatSet :
          \A k \in DOMAIN db[c] \cup DOMAIN data[c] \cup DOMAIN handler.batch :
          HeldAt(db, data, handler, c, k)
              \subseteq HeldAt(db', data', handler', c, k)]_vars
\* C11: final flush.  When the Indexer is destroyed, every element that a
\* worker has put into a shared staging map is in the store of its category:
\* a final sync has written what was staged before the maps are deleted.
C11_FinalFlush ==
    [][s_inst = This /\ s_inst' = "0" =>
          \A c \in CatSet : \A k \in DOMAIN data[c] :
              data[c][k] \subseteq Stored(c, k)]_vars

\* The value sets of a staging map.
ValueSets(h) == {h[k] : k \in DOMAIN h}

\* C12: staging values never contain the empty byte string.  In every
\* reachable state, whatever input index() has admitted, no set held in a
\* shared staging map or in a job's own m_defs, m_refs, m_syms contains
\* the empty byte string.
C12_NoEmptyStaged ==
    /\ \A c \in CatSet : \A vs \in ValueSets(data[c]) : <<>> \notin vs
    /\ \A id \in DOMAIN worker :
          \A f \in {"m_defs", "m_refs", "m_syms"} :
             \A vs \in ValueSets(worker[id].maps[f]) : <<>> \notin vs

\* C13: store open failure means retry later.  A syncData call whose open
\* fails leaves the category's staging map and store as they were; and the
\* next syncData call of that category whose open succeeds returns with
\* every entry it found staged, the entries left by the failed call among
\* them, in the store.
C13_OpenFailureRetried ==
    [][/\ (handler.pc = "open" /\ HCat \notin handler'.opened) =>
            /\ data'[HCat] = data[HCat]
            /\ db'[HCat] = db[HCat]
            /\ data[HCat] # EmptyHash => HCat \in handler'.missed
       /\ (handler.pc = "write" /\ HCat \in handler.missed) =>
            \A k \in DOMAIN handler.staged :
                handler.staged[k] \subseteq SetAt(db'[HCat], k)
      ]_vars

\* The syncData call in hand commits its batch on this step.
Commits == handler.pc = "write" /\ db'[HCat] = Written(db[HCat], handler.batch)

\* C14: a failed point-read is treated as an empty stored set and the merge
\* still unions correctly.  For every staged key whose db->Get failed, the
\* set the store holds at the key once the sync has committed contains
\* every element stored there before the sync and every staged element.
C14_FailedReadStillUnions ==
    [][Commits =>
          \A k \in handler.failed :
              SetAt(db[HCat], k) \cup handler.staged[k]
                  \subseteq SetAt(db'[HCat], k)]_vars

\* C15: sync postcondition per key.  When a syncData call whose open, reads
\* and commit all succeeded returns: for every key that was staged the set
\* stored is exactly the set stored before united with the staged set, and
\* a Put was issued for the key only if the staged set was not already a
\* subset of the stored one; every key that was not staged keeps its stored
\* value; and the staging map is empty.
C15_SyncPostcondition ==
    [][(Commits /\ handler.failed = {}) =>
          /\ \A k \in DOMAIN handler.staged :
                /\ SetAt(db'[HCat], k)
                      = SetAt(db[HCat], k) \cup handler.staged[k]
                /\ k \in DOMAIN handler.batch =>
                      ~(handler.staged[k] \subseteq SetAt(db[HCat], k))
          /\ \A k \in DOMAIN db'[HCat] \ DOMAIN handler.staged :
                k \in DOMAIN db[HCat] /\ db'[HCat][k] = db[HCat][k]
          /\ data'[HCat] = EmptyHash]_vars

\* The job holding a category lock is at a step that needs no lock.
JobRuns(l) ==
    \E id \in DOMAIN worker :
        mutex[l] = ByJob(id) /\ ENABLED (AddInclusion(id) \/ Fold(id))

\* The owner of a held lock can take a step, or waits only for a lock whose
\* owner can.
OwnerRuns(l) ==
    \/ mutex[l] = ByIndex /\ ENABLED IndexEnd
    \/ JobRuns(l)
    \/ mutex[l] = ByJobDone /\ ENABLED HandlerNext
    \/ mutex[l] = ByJobDone /\ handler.pc = "open" /\ JobRuns(HCat)

\* C16: a worker never holds two category locks at once: the include lock
\* only inside addInclusion, and the definition, reference and symbol locks
\* only across its own fold.  No reachable state is a deadlock on the five
\* locks: the owner of every held lock can go on until it releases it.
C16_OneCategoryLock ==
    /\ \A id \in DOMAIN worker :
          /\ Cardinality({c \in CatSet : mutex[c] = ByJob(id)}) <= 1
          /\ mutex["impl"] # ByJob(id)
          /\ mutex["Include"] = ByJob(id) <=> worker[id].pc = "inc"
          /\ mutex["Definition"] = ByJob(id) <=> worker[id].pc = "defFold"
          /\ mutex["Reference"] = ByJob(id) <=> worker[id].pc = "refFold"
          /\ mutex["Symbol"] = ByJob(id) <=> worker[id].pc = "symFold"
    /\ \A l \in Locks : mutex[l] # Free => OwnerRuns(l)

\* jobDone, holding implMutex inside its sync, waits for the lock of a
\* category that a job holds for its fold.
C16_Witness ==
    /\ handler.pc = "open"
    /\ mutex["impl"] = ByJobDone
    /\ \E id \in DOMAIN worker :
          mutex[HCat] = ByJob(id) /\ worker[id].pc \in {"defFold", "refFold", "symFold"}

\* C17 as stated: in no reachable state is implMutex held, by index() or by
\* jobDone, while some category mutex is held.
C17_CoordinatorLockExcludes ==
    mutex["impl"] # Free => \A c \in CatSet : mutex[c] = Free

\* C17, amended: only jobDone ever holds implMutex together with a category
\* mutex, and then the one mutex of the category that its syncData call is
\* merging.  A job never holds implMutex and index() never holds a category
\* mutex; what other threads hold meanwhile is not constrained.
C17_OnlyJobDoneHoldsBoth ==
    /\ \A id \in DOMAIN worker : mutex["impl"] # ByJob(id)
    /\ \A c \in CatSet :
          /\ mutex[c] # ByIndex
          /\ mutex[c] = ByJobDone =>
                /\ mutex["impl"] = ByJobDone
                /\ handler.pc \in {"merge", "clear", "write"}
                /\ HCat = c

\* jobDone holds implMutex and the mutex of the category it is merging
\* while a job holds the mutex of another category.
C17_Witness ==
    /\ mutex["impl"] = ByJobDone
    /\ handler.pc \in {"merge", "clear", "write"}
    /\ mutex[HCat] = ByJobDone
    /\ \E c \in CatSet \ {HCat} : \E id \in DOMAIN worker : mutex[c] = ByJob(id)

\* C18: the sync of a category is atomic for the workers of that category.
\* From the merge loop to the return of syncData the category's mutex is
\* jobDone's; when the map is cleared it is still the map the loop went
\* over, each of its keys put in the batch or skipped as already stored; and
\* from the clear to the release of the mutex the map is empty, so a worker
\* that waited for the mutex inserts into an empty map.
C18_SyncAtomic ==
    /\ handler.pc \in {"merge", "clear", "write"} => mutex[HCat] = ByJobDone
    /\ handler.pc = "clear" =>
          /\ data[HCat] = handler.staged
          /\ \A k \in DOMAIN data[HCat] :
                \/ k \in DOMAIN handler.batch
                \/ data[HCat][k] \subseteq Stored(HCat, k)
    /\ handler.pc = "write" => data[HCat] = EmptyHash

\* A job with symbols of its own to fold waits for symMutex while syncData
\* is about to clear the symbol map it has merged.
C18_Witness ==
    /\ handler.pc = "clear"
    /\ HCat = "Symbol"
    /\ data[HCat] # EmptyHash
    /\ \E id \in DOMAIN worker :
          worker[id].pc = "symLock" /\ worker[id].maps.m_syms # EmptyHash

\* The job has been handed no unit, or one reused from its AST.
NotFromSource(id) == worker[id].unit \in {"none", "AST"}

\* The step is one of run() of job id.
StepOf(id) == id \notin DOMAIN worker' \/ worker'[id] # worker[id]

\* C19: a job for which the cache produces no unit, or a unit of origin
\* AST, leaves the four shared staging maps as they are and still emits
\* done(id, input).  Such a job goes from the cache straight to the emit with
\* nothing extracted, none of its steps changes a staging map or takes a
\* mutex, and its last step queues done(m_id, m_in); any job that is
\* extracting or folding has a unit of origin Source.
C19_NoUnitNoData ==
    [][\A id \in DOMAIN worker :
          /\ (worker[id].pc = "queued" /\ worker'[id].pc # "queued"
                 /\ NotFromSource(id)') =>
                /\ worker'[id].pc = "emit"
                /\ worker'[id].maps = NoMaps
                /\ data' = data /\ mutex' = mutex
          /\ (NotFromSource(id) /\ StepOf(id)) =>
                /\ worker[id].pc = "emit"
                /\ id \notin DOMAIN worker'
                /\ data' = data /\ mutex' = mutex
                /\ done' = [done EXCEPT ![id] = @ + 1]
                /\ queue' = Append(queue, [id |-> id, filename |-> jobs[id].m_in])
          /\ (worker[id].pc \notin {"queued", "emit"}
                 \/ worker[id].maps # NoMaps) => worker[id].unit = "Source"
      ]_vars

\* The first job, of "/d/a", has run and emitted done, and no staging map
\* holds anything: its unit was not parsed from source.
C19_Witness ==
    /\ queue = <<[id |-> 0, filename |-> PA]>>
    /\ done[0] = 1
    /\ \A c \in CatSet : data[c] = EmptyHash

\* C20: coordinator bookkeeping.  Whenever implMutex is free, the jobs in
\* `jobs` have pairwise distinct ids, their input paths are pairwise
\* distinct and are exactly the elements of `indexing` (so the two hold the
\* same number of entries), and every id in `jobs` is less than lastJobId;
\* and an index() call that returns -1 has changed none of indexing, jobs,
\* lastJobId, jobCounter.
C20_Bookkeeping ==
    /\ [](mutex["impl"] = Free =>
            /\ \A id \in DOMAIN jobs : jobs[id].m_id = id /\ id < lastJobId
            /\ \A i, j \in DOMAIN jobs :
                  jobs[i].m_in = jobs[j].m_in => i = j
            /\ {jobs[id].m_in : id \in DOMAIN jobs} = indexing
            /\ Cardinality(DOMAIN jobs) = Cardinality(indexing))
    /\ [][(ret' # <<>> /\ ret'[1].value = -1) =>
            UNCHANGED <<indexing, jobs, lastJobId, jobCounter>>]_vars

\* With two jobs outstanding and implMutex free again, a call has just been
\* turned away.
C20_Witness ==
    /\ mutex["impl"] = Free
    /\ Cardinality(DOMAIN jobs) = 2
    /\ ret # <<>> /\ ret[1].value = -1

====
